---- MODULE Spec2Model ----
(***************************************************************************)
(* Graph construction of the AWS security group mapper.                    *)
(*                                                                         *)
(* One builder instance (a BaseVisualizer subclass or the stand-alone      *)
(* GraphGenerator) owns a networkx DiGraph.  build_graph walks the         *)
(* security group records, their IpPermissions, and each permission's      *)
(* UserIdGroupPairs and IpRanges.  Each loop iteration of build_graph is   *)
(* one step of the model; the record, permission, pair or range the        *)
(* iteration reads is chosen when the iteration runs, so a behaviour of    *)
(* the model is a call of build_graph on some list of records.             *)
(***************************************************************************)
EXTENDS Integers, Sequences, FiniteSets, TLC

(***************************************************************************)
(* Bounds of the model: what one builder instance is given over its life.  *)
(***************************************************************************)
\* calls of build_graph
MaxBuilds == 2
\* security group records, over all calls
MaxRecords == 2
\* permissions, over all records
MaxPerms == 2
\* group references and address ranges, over all permissions
MaxSources == 2

(***************************************************************************)
(* Python values.                                                          *)
(***************************************************************************)
\* None, as the value of an absent highlight_sg and of dict.get without default
NoneValue == "<None>"

\* the empty dict
EmptyDict == [k \in {} |-> k]

\* dict.get(key, default)
Get(d, k, default) == IF k \in DOMAIN d THEN d[k] ELSE default

\* truth value of an optional string: None and "" are falsy
Truthy(s) == s # NoneValue /\ s # ""

\* a dict with the entry k: v unless v is None (the key is then missing)
Entry(k, v) == IF v = NoneValue THEN EmptyDict ELSE (k :> v)

(***************************************************************************)
(* Input domains: the dicts a caller may hand to build_graph.              *)
(***************************************************************************)
Optional(S) == S \cup {NoneValue}

GroupIds == {"sg-A", "sg-B"}
VpcIds == {"vpc-1", "vpc-2"}
CidrIps == {"0.0.0.0/0", "192.168.1.0/24"}


\* the fields of a security group record other than IpPermissions
\* (a record with the GroupId only, or one with every field)
SecurityGroups ==
    { [GroupId |-> i] : i \in GroupIds }
    \cup { [GroupId |-> i, GroupName |-> "web-sg", Description |-> "Web tier", VpcId |-> v] :
             i \in GroupIds, v \in VpcIds }

\* the fields of a permission other than UserIdGroupPairs and IpRanges
Permissions ==
    { EmptyDict,
      [FromPort |-> 80, ToPort |-> 443, IpProtocol |-> "tcp"] }

GroupPairs ==
    { Entry("GroupId", i) @@ Entry("VpcId", v) :
        i \in Optional(GroupIds \cup {""}), v \in Optional(VpcIds) }

IpRanges == { Entry("CidrIp", c) : c \in Optional(CidrIps \cup {""}) }

HighlightArgs == {NoneValue, "sg-A"}

\* records without the GroupId key
RecordsWithoutId ==
    { EmptyDict,
      [GroupName |-> "web-sg", Description |-> "Web tier", VpcId |-> "vpc-1"] }

(***************************************************************************)
(* utils.format_ports                                                      *)
(***************************************************************************)
\* format_ports without the single port form
format_ports_AlwaysRange(from_port, to_port) ==
    ToString(from_port) \o "-" \o ToString(to_port)

format_ports(from_port, to_port) ==
    IF from_port = to_port
    THEN ToString(from_port)
    ELSE ToString(from_port) \o "-" \o ToString(to_port)

(***************************************************************************)
(* utils.get_friendly_cidr_name                                            *)
(***************************************************************************)
\* config.common_cidrs, read from config.yaml
common_cidrs == ("0.0.0.0/0" :> "Internet") @@ ("10.0.0.0/8" :> "Internal Network (Class A)")

\* the strings ipaddress.ip_network parses whose is_private is true
PrivateNetworks ==
    {"10.0.0.0/8", "192.168.1.0/24", "10.0.0.0/16", "10.1.0.0/16",
      "10.0.1.0/24", "10.255.255.255/32", "172.16.0.0/12", "172.16.0.0/16",
      "172.31.0.0/16", "192.168.0.0/16", "192.168.0.0/24",
      "192.168.100.10/32", "127.0.0.0/8", "127.0.0.1/32", "169.254.0.0/16",
      "169.254.169.254/32", "192.0.2.0/24", "198.51.100.0/24",
      "203.0.113.0/24", "203.0.113.5/32", "198.18.0.0/15", "240.0.0.0/4",
      "255.255.255.255/32", "0.0.0.0/8", "0.0.0.0/32", "::1/128", "fc00::/7",
      "fd00::/8", "fe80::/10", "2001:db8::/32", "10.0.0.1", "192.168.1.1",
      "192.168.1.0/255.255.255.0" }

\* the strings it parses whose is_private is false and is_global true
GlobalNetworks ==
    {"0.0.0.0/0", "8.8.8.8/32", "172.32.0.0/16", "224.0.0.0/4",
      "224.0.0.1/32", "192.0.0.0/24", "192.88.99.0/24", "1.1.1.1/32",
      "1.1.1.0/24", "8.8.8.0/24", "8.8.4.4/32", "52.0.0.0/8",
      "54.239.0.0/16", "13.32.0.0/15", "151.101.0.0/16", "100.128.0.0/9",
      "100.63.0.0/16", "128.0.0.0/1", "0.0.0.0/1", "192.168.0.0/15",
      "172.0.0.0/8", "11.0.0.0/8", "::/0", "2001:4860:4860::8888/128",
      "2600::/12", "ff00::/8", "64:ff9b::/96", "8.8.8.8" }

\* the strings it parses whose is_private and is_global are both false
SharedNetworks ==
    {"100.64.0.0/10", "100.64.1.0/24", "100.127.255.255/32" }

\* the strings it rejects with ValueError
MalformedNetworks ==
    {"not-a-cidr", "", "10.0.0.1/8", "10.0.0.0/33", "300.1.1.1/32",
      "10.0.0/8", "10.0.0.0/-1", "10.0.0.0/8 ", "sg-001", "0.0.0.0/0/0",
      "192.168.1.5/255.255.255.0", "any", "*", "1.2.3.4/" }

\* ipaddress.ip_network(cidr) and its is_private / is_global, on the strings
\* of the model: "private", "global", "other" or "invalid" (ValueError)
ip_network(cidr) ==
    CASE cidr \in PrivateNetworks -> "private"
      [] cidr \in GlobalNetworks -> "global"
      [] cidr \in SharedNetworks -> "other"
      [] OTHER -> "invalid"

\* the exception of ip_network, where it leaves a call
ValueError == "<ValueError>"

\* get_friendly_cidr_name without the except clause
get_friendly_cidr_name_NoExcept(cidr) ==
    IF cidr \in DOMAIN common_cidrs
    THEN common_cidrs[cidr] \o " (" \o cidr \o ")"
    ELSE CASE ip_network(cidr) = "private" -> "Private Network (" \o cidr \o ")"
           [] ip_network(cidr) = "global" -> "Public Network (" \o cidr \o ")"
           [] ip_network(cidr) = "invalid" -> ValueError
           [] OTHER -> cidr

\* get_friendly_cidr_name that classifies the network before it looks the
\* string up in common_cidrs
get_friendly_cidr_name_ClassifiesFirst(cidr) ==
    CASE ip_network(cidr) = "private" -> "Private Network (" \o cidr \o ")"
      [] ip_network(cidr) = "global" -> "Public Network (" \o cidr \o ")"
      [] OTHER -> IF cidr \in DOMAIN common_cidrs
                  THEN common_cidrs[cidr] \o " (" \o cidr \o ")"
                  ELSE cidr

\* get_friendly_cidr_name that takes every network that is not private for a
\* public one
get_friendly_cidr_name_PublicUnlessPrivate(cidr) ==
    IF cidr \in DOMAIN common_cidrs
    THEN common_cidrs[cidr] \o " (" \o cidr \o ")"
    ELSE CASE ip_network(cidr) = "private" -> "Private Network (" \o cidr \o ")"
           [] ip_network(cidr) \in {"global", "other"} -> "Public Network (" \o cidr \o ")"
           [] OTHER -> cidr

get_friendly_cidr_name(cidr) ==
    IF cidr \in DOMAIN common_cidrs
    THEN common_cidrs[cidr] \o " (" \o cidr \o ")"
    ELSE CASE ip_network(cidr) = "private" -> "Private Network (" \o cidr \o ")"
           [] ip_network(cidr) = "global" -> "Public Network (" \o cidr \o ")"
           [] OTHER -> cidr

(***************************************************************************)
(* networkx.DiGraph, as far as the builders use it: node maps each node    *)
(* key to its attribute dict, adj maps each edge <<u, v>> to its attribute *)
(* dict.                                                                   *)
(***************************************************************************)
EmptyGraph == [node |-> EmptyDict, adj |-> EmptyDict]

\* add_node that leaves an existing node as it is
add_node_KeepsExisting(g, n, attrs) ==
    IF n \in DOMAIN g.node
    THEN g
    ELSE [g EXCEPT !.node = (n :> attrs) @@ g.node]

\* G.add_node(n, **attrs): a new node gets attrs, an existing one is updated
add_node(g, n, attrs) ==
    IF n \in DOMAIN g.node
    THEN [g EXCEPT !.node = (n :> (attrs @@ g.node[n])) @@ g.node]
    ELSE [g EXCEPT !.node = (n :> attrs) @@ g.node]

\* add_edge that leaves an existing edge as it is
add_edge_KeepsExisting(g, u, v, attrs) ==
    LET withU == IF u \in DOMAIN g.node THEN g.node ELSE (u :> EmptyDict) @@ g.node
        withV == IF v \in DOMAIN withU THEN withU ELSE (v :> EmptyDict) @@ withU
        e == <<u, v>>
    IN [node |-> withV,
        adj |-> IF e \in DOMAIN g.adj THEN g.adj ELSE (e :> attrs) @@ g.adj]

\* G.add_edge(u, v, **attrs): missing endpoints are added without attributes,
\* a new edge gets attrs, an existing one is updated
add_edge(g, u, v, attrs) ==
    LET withU == IF u \in DOMAIN g.node THEN g.node ELSE (u :> EmptyDict) @@ g.node
        withV == IF v \in DOMAIN withU THEN withU ELSE (v :> EmptyDict) @@ withU
        e == <<u, v>>
    IN [node |-> withV,
        adj |-> IF e \in DOMAIN g.adj
                THEN (e :> (attrs @@ g.adj[e])) @@ g.adj
                ELSE (e :> attrs) @@ g.adj]

(***************************************************************************)
(* The builder classes.                                                    *)
(***************************************************************************)
Kinds == {"BaseVisualizer", "MatplotlibVisualizer", "PlotlyVisualizer", "GraphGenerator"}

\* the classes whose build_graph starts with self.clear()
Clears(kind) == kind # "GraphGenerator"

\* the classes that keep a highlight_sg and flag nodes with is_highlighted
Highlights(kind) == kind # "GraphGenerator"

\* the classes whose edges carry protocol / ports / direction instead of label / ports
ProtocolEdges(kind) == kind \in {"MatplotlibVisualizer", "PlotlyVisualizer"}

\* the classes that add a CIDR node only when it is not in the graph
GuardsCidrNode(kind) == kind \in {"MatplotlibVisualizer", "PlotlyVisualizer"}

(***************************************************************************)
(* build_graph and _process_permission, one loop body each.                *)
(***************************************************************************)
\* sg["GroupId"] raises KeyError: the only subscript of build_graph, every
\* other field is read with dict.get and a default
RaisesKeyError_OnAnyMissingField(sg) ==
    {"GroupId", "GroupName", "Description", "VpcId"} \ DOMAIN sg # {}

RaisesKeyError(sg) == "GroupId" \notin DOMAIN sg

\* attributes of the node of a security group record
RecordNodeAttrs(kind, sg, highlight) ==
    [name |-> Get(sg, "GroupName", "Unknown"),
     description |-> Get(sg, "Description", ""),
     vpc_id |-> Get(sg, "VpcId", "Unknown VPC"),
     type |-> "security_group"]
    @@ (IF Highlights(kind)
        THEN ("is_highlighted" :> (sg["GroupId"] = highlight))
        ELSE EmptyDict)

\* placeholder attributes that never flag the node
PlaceholderAttrs_NeverHighlighted(kind, source_id, source_vpc, highlight) ==
    [name |-> "Security Group " \o source_id,
     description |-> "Referenced Security Group",
     vpc_id |-> source_vpc,
     type |-> "security_group"]
    @@ (IF Highlights(kind)
        THEN ("is_highlighted" :> FALSE)
        ELSE EmptyDict)

\* attributes of the node synthesized for a referenced group
PlaceholderAttrs(kind, source_id, source_vpc, highlight) ==
    [name |-> "Security Group " \o source_id,
     description |-> "Referenced Security Group",
     vpc_id |-> source_vpc,
     type |-> "security_group"]
    @@ (IF Highlights(kind)
        THEN ("is_highlighted" :> (source_id = highlight))
        ELSE EmptyDict)

\* is_cross_vpc that compares the two container ids only
IsCrossVpc_AnyDifference(vpc_id, source_vpc) ==
    source_vpc # vpc_id

\* is_cross_vpc that also wants the owning record's container id known
IsCrossVpc_BothKnown(vpc_id, source_vpc) ==
    source_vpc \notin {vpc_id, "Unknown VPC"} /\ vpc_id # "Unknown VPC"

\* is_cross_vpc that takes a missing container id for a foreign one
IsCrossVpc_UnknownIsForeign(vpc_id, source_vpc) ==
    source_vpc = "Unknown VPC" \/ source_vpc # vpc_id

\* is_cross_vpc that only wants the reference's container id known
IsCrossVpc_KnownOnly(vpc_id, source_vpc) ==
    source_vpc # "Unknown VPC"

\* is_cross_vpc of the edge of a group reference
IsCrossVpc(vpc_id, source_vpc) ==
    source_vpc \notin {vpc_id, "Unknown VPC"}

\* the locals of _process_permission read from the permission
PermissionLocals(permission) ==
    [from_port |-> Get(permission, "FromPort", -1),
     to_port |-> Get(permission, "ToPort", -1),
     protocol |-> Get(permission, "IpProtocol", "-1")]

\* edge attributes whose ports field is format_ports in every class
EdgeAttrs_PortsFormatted(kind, loc, is_cross_vpc) ==
    IF ProtocolEdges(kind)
    THEN [protocol |-> IF loc.protocol = "-1" THEN "All" ELSE loc.protocol,
          ports |-> format_ports(loc.from_port, loc.to_port),
          direction |-> "INGRESS",
          is_cross_vpc |-> is_cross_vpc]
    ELSE [label |-> loc.protocol \o ":" \o format_ports(loc.from_port, loc.to_port),
          ports |-> format_ports(loc.from_port, loc.to_port),
          is_cross_vpc |-> is_cross_vpc]

\* edge attributes without the "-1" to "All" replacement
EdgeAttrs_RawProtocol(kind, loc, is_cross_vpc) ==
    IF ProtocolEdges(kind)
    THEN [protocol |-> loc.protocol,
          ports |-> format_ports(loc.from_port, loc.to_port),
          direction |-> "INGRESS",
          is_cross_vpc |-> is_cross_vpc]
    ELSE [label |-> loc.protocol \o ":" \o format_ports(loc.from_port, loc.to_port),
          ports |-> ToString(loc.from_port) \o "-" \o ToString(loc.to_port),
          is_cross_vpc |-> is_cross_vpc]

\* attributes of an edge
EdgeAttrs(kind, loc, is_cross_vpc) ==
    IF ProtocolEdges(kind)
    THEN [protocol |-> IF loc.protocol = "-1" THEN "All" ELSE loc.protocol,
          ports |-> format_ports(loc.from_port, loc.to_port),
          direction |-> "INGRESS",
          is_cross_vpc |-> is_cross_vpc]
    ELSE [label |-> loc.protocol \o ":" \o format_ports(loc.from_port, loc.to_port),
          ports |-> ToString(loc.from_port) \o "-" \o ToString(loc.to_port),
          is_cross_vpc |-> is_cross_vpc]

\* the record loop that, given a highlight id, adds the node of that record only
AddSecurityGroup_OnlyFocus(kind, g, highlight, sg) ==
    IF highlight # NoneValue /\ sg["GroupId"] # highlight
    THEN g
    ELSE add_node(g, sg["GroupId"], RecordNodeAttrs(kind, sg, highlight))

\* the record loop that adds the node of the record as the two ends of an edge
AddSecurityGroup_SelfEdge(kind, g, highlight, sg) ==
    add_node(add_edge(g, sg["GroupId"], sg["GroupId"], EmptyDict),
             sg["GroupId"], RecordNodeAttrs(kind, sg, highlight))

\* body of "for sg in security_groups" up to the permission loop
AddSecurityGroup(kind, g, highlight, sg) ==
    add_node(g, sg["GroupId"], RecordNodeAttrs(kind, sg, highlight))

\* the group pair loop without the "not in self.graph" test: every reference
\* writes the node of the group it names
AddGroupPair_AlwaysAddsNode(kind, g, highlight, loc, group_pair) ==
    LET source_id == Get(group_pair, "GroupId", NoneValue)
        source_vpc == Get(group_pair, "VpcId", "Unknown VPC")
        withNode == add_node(g, source_id,
                             PlaceholderAttrs(kind, source_id, source_vpc, highlight))
    IN IF Truthy(source_id)
       THEN add_edge(withNode, source_id, loc.group_id,
                     EdgeAttrs(kind, loc, IsCrossVpc(loc.vpc_id, source_vpc)))
       ELSE g

\* the group pair loop with the edge drawn from the owning group to the source
AddGroupPair_ReversedEdge(kind, g, highlight, loc, group_pair) ==
    LET source_id == Get(group_pair, "GroupId", NoneValue)
        source_vpc == Get(group_pair, "VpcId", "Unknown VPC")
        withNode == IF source_id \notin DOMAIN g.node
                    THEN add_node(g, source_id,
                                  PlaceholderAttrs(kind, source_id, source_vpc, highlight))
                    ELSE g
    IN IF Truthy(source_id)
       THEN add_edge(withNode, loc.group_id, source_id,
                     EdgeAttrs(kind, loc, IsCrossVpc(loc.vpc_id, source_vpc)))
       ELSE g

\* the group pair loop that reads the container id of a source already in the
\* graph from its node instead of from the reference
AddGroupPair_CrossFromNode(kind, g, highlight, loc, group_pair) ==
    LET source_id == Get(group_pair, "GroupId", NoneValue)
        source_vpc == IF source_id \in DOMAIN g.node
                      THEN Get(g.node[source_id], "vpc_id", "Unknown VPC")
                      ELSE Get(group_pair, "VpcId", "Unknown VPC")
        withNode == IF source_id \notin DOMAIN g.node
                    THEN add_node(g, source_id,
                                  PlaceholderAttrs(kind, source_id, source_vpc, highlight))
                    ELSE g
    IN IF Truthy(source_id)
       THEN add_edge(withNode, source_id, loc.group_id,
                     EdgeAttrs(kind, loc, IsCrossVpc(loc.vpc_id, source_vpc)))
       ELSE g

\* the group pair loop without the "if source_id" test
AddGroupPair_NoIdGuard(kind, g, highlight, loc, group_pair) ==
    LET source_id == Get(group_pair, "GroupId", NoneValue)
        source_vpc == Get(group_pair, "VpcId", "Unknown VPC")
        withNode == IF source_id \notin DOMAIN g.node
                    THEN add_node(g, source_id,
                                  PlaceholderAttrs(kind, source_id, source_vpc, highlight))
                    ELSE g
    IN add_edge(withNode, source_id, loc.group_id,
                EdgeAttrs(kind, loc, IsCrossVpc(loc.vpc_id, source_vpc)))

\* the group pair loop that writes the reference's container id on a source
\* already in the graph
AddGroupPair_RefreshesVpc(kind, g, highlight, loc, group_pair) ==
    LET source_id == Get(group_pair, "GroupId", NoneValue)
        source_vpc == Get(group_pair, "VpcId", "Unknown VPC")
        withNode == IF source_id \notin DOMAIN g.node
                    THEN add_node(g, source_id,
                                  PlaceholderAttrs(kind, source_id, source_vpc, highlight))
                    ELSE add_node(g, source_id, [vpc_id |-> source_vpc])
    IN IF Truthy(source_id)
       THEN add_edge(withNode, source_id, loc.group_id,
                     EdgeAttrs(kind, loc, IsCrossVpc(loc.vpc_id, source_vpc)))
       ELSE g

\* the group pair loop in which a node synthesized for a reference follows
\* the container id of the latest reference
AddGroupPair_PlaceholderFollowsReference(kind, g, highlight, loc, group_pair) ==
    LET source_id == Get(group_pair, "GroupId", NoneValue)
        source_vpc == Get(group_pair, "VpcId", "Unknown VPC")
        withNode == IF source_id \notin DOMAIN g.node
                    THEN add_node(g, source_id,
                                  PlaceholderAttrs(kind, source_id, source_vpc, highlight))
                    ELSE IF Get(g.node[source_id], "description", "")
                              = "Referenced Security Group"
                         THEN add_node(g, source_id, [vpc_id |-> source_vpc])
                         ELSE g
    IN IF Truthy(source_id)
       THEN add_edge(withNode, source_id, loc.group_id,
                     EdgeAttrs(kind, loc, IsCrossVpc(loc.vpc_id, source_vpc)))
       ELSE g

\* body of "for group_pair in permission.get('UserIdGroupPairs', [])"
AddGroupPair(kind, g, highlight, loc, group_pair) ==
    LET source_id == Get(group_pair, "GroupId", NoneValue)
        source_vpc == Get(group_pair, "VpcId", "Unknown VPC")
        withNode == IF source_id \notin DOMAIN g.node
                    THEN add_node(g, source_id,
                                  PlaceholderAttrs(kind, source_id, source_vpc, highlight))
                    ELSE g
    IN IF Truthy(source_id)
       THEN add_edge(withNode, source_id, loc.group_id,
                     EdgeAttrs(kind, loc, IsCrossVpc(loc.vpc_id, source_vpc)))
       ELSE g

\* the range loop with one CIDR node per owning group
AddIpRange_NodePerTarget(kind, g, loc, ip_range) ==
    LET cidr == Get(ip_range, "CidrIp", NoneValue)
        friendly_name == get_friendly_cidr_name(cidr)
        cidr_node == "CIDR: " \o friendly_name \o " of " \o loc.group_id
    IN IF Truthy(cidr)
       THEN add_edge(add_node(g, cidr_node, [name |-> friendly_name, type |-> "cidr"]),
                     cidr_node, loc.group_id, EdgeAttrs(kind, loc, FALSE))
       ELSE g

\* the range loop with is_cross_vpc computed as for a group reference, the
\* CIDR standing for the container id
AddIpRange_CrossComputed(kind, g, loc, ip_range) ==
    LET cidr == Get(ip_range, "CidrIp", NoneValue)
        friendly_name == get_friendly_cidr_name(cidr)
        cidr_node == "CIDR: " \o friendly_name
    IN IF Truthy(cidr)
       THEN add_edge(add_node(g, cidr_node, [name |-> friendly_name, type |-> "cidr"]),
                     cidr_node, loc.group_id,
                     EdgeAttrs(kind, loc, IsCrossVpc(loc.vpc_id, cidr)))
       ELSE g

\* body of "for ip_range in permission.get('IpRanges', [])"
AddIpRange(kind, g, loc, ip_range) ==
    LET cidr == Get(ip_range, "CidrIp", NoneValue)
        friendly_name == get_friendly_cidr_name(cidr)
        cidr_node == "CIDR: " \o friendly_name
        withNode == IF GuardsCidrNode(kind) /\ cidr_node \in DOMAIN g.node
                    THEN g
                    ELSE add_node(g, cidr_node, [name |-> friendly_name, type |-> "cidr"])
    IN IF Truthy(cidr)
       THEN add_edge(withNode, cidr_node, loc.group_id, EdgeAttrs(kind, loc, FALSE))
       ELSE g

(***************************************************************************)
(* build_graph as one call: the loops over a whole list of records, each   *)
(* record with its IpPermissions, each permission with its                 *)
(* UserIdGroupPairs and IpRanges.                                          *)
(***************************************************************************)
\* for group_pair in permission.get("UserIdGroupPairs", [])
RECURSIVE GroupPairLoop(_, _, _, _, _)
GroupPairLoop(kind, g, highlight, loc, group_pairs) ==
    IF group_pairs = <<>>
    THEN g
    ELSE GroupPairLoop(kind, AddGroupPair(kind, g, highlight, loc, Head(group_pairs)),
                       highlight, loc, Tail(group_pairs))

\* for ip_range in permission.get("IpRanges", [])
RECURSIVE IpRangeLoop(_, _, _, _)
IpRangeLoop(kind, g, loc, ip_ranges) ==
    IF ip_ranges = <<>>
    THEN g
    ELSE IpRangeLoop(kind, AddIpRange(kind, g, loc, Head(ip_ranges)), loc, Tail(ip_ranges))

\* _process_permission(permission, target_group_id, vpc_id)
process_permission(kind, g, highlight, sg, permission) ==
    LET loc == [sg |-> sg, permission |-> permission,
                group_id |-> sg["GroupId"],
                vpc_id |-> Get(sg, "VpcId", "Unknown VPC"),
                from_port |-> PermissionLocals(permission).from_port,
                to_port |-> PermissionLocals(permission).to_port,
                protocol |-> PermissionLocals(permission).protocol]
    IN IpRangeLoop(kind,
                   GroupPairLoop(kind, g, highlight, loc,
                                 Get(permission, "UserIdGroupPairs", <<>>)),
                   loc, Get(permission, "IpRanges", <<>>))

\* for permission in sg.get("IpPermissions", [])
RECURSIVE PermissionLoop(_, _, _, _, _)
PermissionLoop(kind, g, highlight, sg, permissions) ==
    IF permissions = <<>>
    THEN g
    ELSE PermissionLoop(kind, process_permission(kind, g, highlight, sg, Head(permissions)),
                        highlight, sg, Tail(permissions))

\* for sg in security_groups
RECURSIVE SecurityGroupLoop(_, _, _, _)
SecurityGroupLoop(kind, g, highlight, security_groups) ==
    IF security_groups = <<>>
    THEN g
    ELSE SecurityGroupLoop(kind,
                           PermissionLoop(kind,
                                          AddSecurityGroup(kind, g, highlight,
                                                           Head(security_groups)),
                                          highlight, Head(security_groups),
                                          Get(Head(security_groups), "IpPermissions", <<>>)),
                           highlight, Tail(security_groups))

\* build_graph(security_groups, highlight_sg) on an instance whose graph is g
build_graph(kind, g, highlight, security_groups) ==
    SecurityGroupLoop(kind, IF Clears(kind) THEN EmptyGraph ELSE g,
                      highlight, security_groups)

(***************************************************************************)
(* State.                                                                  *)
(***************************************************************************)
VARIABLES
    kind,           \* the class of the builder instance
    graph,          \* self.graph
    highlight_sg,   \* self.highlight_sg
    pc,             \* where build_graph stands: "idle" outside a call, else the loop
    loc,            \* locals of the running call: group_id, vpc_id, ports, protocol
    count,          \* calls and loop iterations so far (bounds the model)
    outcome,        \* how the last call ended: "none", "returned" or "KeyError"
    fresh,          \* what a new instance of the class holds after the same call
    hist,           \* what was fed into self.graph since it was last empty
    args,           \* arguments of the call under test (the stand-alone specifications)
    result,         \* what that call returned
    cache,          \* the files of the cache directory, by (profile, region)
    now             \* time.time()

vars == <<kind, graph, highlight_sg, pc, loc, count, outcome, fresh, hist, args, result, cache, now>>

\* sg and permission are the record and the rule the loops stand on
NoLocals == [sg |-> NoneValue, permission |-> NoneValue,
             group_id |-> NoneValue, vpc_id |-> NoneValue,
             from_port |-> -1, to_port |-> -1, protocol |-> "-1"]

NoCount == [builds |-> 0, records |-> 0, perms |-> 0, sources |-> 0]

FreshInstance == [graph |-> EmptyGraph, highlight_sg |-> NoneValue]

(***************************************************************************)
(* History of the input, kept beside the graph it was fed into:            *)
(*   records   the last record given per GroupId                           *)
(*   replaced  the ids whose last record replaced a different one          *)
(*   refs      the group references with a GroupId, each with the id and   *)
(*             container id of the record that holds it                    *)
(*   firstRef  the first reference, per referenced id without a record     *)
(*   named     the <<CidrIp, GroupId>> pairs of the address ranges         *)
(*   writer    per <<source, target>>, the rule and the reference or range *)
(*             that last asked for that edge                               *)
(*   rewrote   the pairs whose last writer replaced a different one        *)
(***************************************************************************)
NoHist == [records |-> EmptyDict, replaced |-> {}, refs |-> {}, firstRef |-> EmptyDict,
           named |-> {}, writer |-> EmptyDict, rewrote |-> {}]

\* the node key of an address range
CidrNodeKey(cidr) == "CIDR: " \o get_friendly_cidr_name(cidr)

HistWrite(h, e, w) ==
    [h EXCEPT !.writer = (e :> w) @@ @,
              !.rewrote = IF e \in DOMAIN h.writer
                             /\ <<h.writer[e].rule.from_port, h.writer[e].rule.protocol>>
                                  # <<w.rule.from_port, w.rule.protocol>>
                          THEN @ \cup {e}
                          ELSE @ \ {e}]

HistSecurityGroup(h, sg) ==
    LET id == sg["GroupId"]
    IN [h EXCEPT !.records = (id :> sg) @@ @,
                 !.replaced = IF id \in DOMAIN h.records /\ h.records[id] # sg
                              THEN @ \cup {id}
                              ELSE @ \ {id},
                 !.firstRef = [i \in DOMAIN @ \ {id} |-> @[i]]]

HistGroupPair(h, l, group_pair) ==
    LET source_id == Get(group_pair, "GroupId", NoneValue)
        ref == [source |-> group_pair, group_id |-> l.group_id, vpc_id |-> l.vpc_id]
    IN IF Truthy(source_id)
       THEN HistWrite([h EXCEPT !.refs = @ \cup {ref},
                                !.firstRef = IF source_id \in DOMAIN h.records
                                             THEN @
                                             ELSE @ @@ (source_id :> group_pair)],
                      <<source_id, l.group_id>>,
                      [via |-> "group", source |-> group_pair, rule |-> l])
       ELSE h

HistIpRange(h, l, ip_range) ==
    LET cidr == Get(ip_range, "CidrIp", NoneValue)
    IN IF Truthy(cidr)
       THEN HistWrite([h EXCEPT !.named = @ \cup {<<cidr, l.group_id>>}],
                      <<CidrNodeKey(cidr), l.group_id>>,
                      [via |-> "cidr", source |-> ip_range, rule |-> l])
       ELSE h

Init ==
    /\ kind \in Kinds
    /\ graph = EmptyGraph
    /\ highlight_sg = NoneValue
    /\ pc = "idle"
    /\ loc = NoLocals
    /\ count = NoCount
    /\ outcome = "none"
    /\ fresh = FreshInstance
    /\ hist = NoHist
    /\ args = NoneValue
    /\ result = NoneValue
    /\ cache = EmptyDict
    /\ now = 0

InBuild == pc \in {"sg", "perm", "pair", "range"}

(***************************************************************************)
(* clear()                                                                 *)
(***************************************************************************)
Clear ==
    /\ pc = "idle"
    /\ Clears(kind)
    /\ graph' = EmptyGraph
    /\ highlight_sg' = NoneValue
    /\ hist' = NoHist
    /\ fresh' = FreshInstance
    /\ outcome' = "none"
    /\ UNCHANGED <<kind, pc, loc, count, args, result, cache, now>>

(***************************************************************************)
(* build_graph(security_groups, highlight_sg): entry                       *)
(***************************************************************************)
BuildGraph(highlight) ==
    /\ pc = "idle"
    /\ count.builds < MaxBuilds
    /\ Highlights(kind) \/ highlight = NoneValue
    /\ IF Clears(kind)
       THEN /\ graph' = EmptyGraph
            /\ highlight_sg' = highlight
            /\ hist' = NoHist
       ELSE UNCHANGED <<graph, highlight_sg, hist>>
    /\ fresh' = [graph |-> EmptyGraph, highlight_sg |-> highlight]
    /\ pc' = "sg"
    /\ loc' = NoLocals
    /\ count' = [count EXCEPT !.builds = @ + 1]
    /\ outcome' = "none"
    /\ UNCHANGED <<kind, args, result, cache, now>>

(***************************************************************************)
(* for sg in security_groups: the node of the record                       *)
(***************************************************************************)
NextSecurityGroup(sg) ==
    /\ InBuild
    /\ count.records < MaxRecords
    /\ ~RaisesKeyError(sg)
    /\ graph' = AddSecurityGroup(kind, graph, highlight_sg, sg)
    /\ fresh' = [fresh EXCEPT !.graph = AddSecurityGroup(kind, @, fresh.highlight_sg, sg)]
    /\ hist' = HistSecurityGroup(hist, sg)
    /\ loc' = [NoLocals EXCEPT !.sg = sg,
                               !.group_id = sg["GroupId"],
                               !.vpc_id = Get(sg, "VpcId", "Unknown VPC")]
    /\ count' = [count EXCEPT !.records = @ + 1]
    /\ pc' = "perm"
    /\ UNCHANGED <<kind, highlight_sg, outcome, args, result, cache, now>>

\* the loop reads the record and skips it
MissingGroupId_SkipsRecord(sg) ==
    /\ InBuild
    /\ count.records < MaxRecords
    /\ RaisesKeyError(sg)
    /\ pc' = "perm"
    /\ loc' = [NoLocals EXCEPT !.sg = sg]
    /\ count' = [count EXCEPT !.records = @ + 1]
    /\ UNCHANGED <<kind, graph, highlight_sg, outcome, fresh, hist, args, result, cache, now>>

\* sg["GroupId"] on a record without the key: KeyError leaves build_graph,
\* the frame it leaves stands on that record
MissingGroupId(sg) ==
    /\ InBuild
    /\ count.records < MaxRecords
    /\ RaisesKeyError(sg)
    /\ pc' = "idle"
    /\ outcome' = "KeyError"
    /\ loc' = [NoLocals EXCEPT !.sg = sg]
    /\ count' = [count EXCEPT !.records = @ + 1]
    /\ UNCHANGED <<kind, graph, highlight_sg, fresh, hist, args, result, cache, now>>

(***************************************************************************)
(* for permission in sg.get("IpPermissions", []): _process_permission      *)
(***************************************************************************)
NextPermission(permission) ==
    /\ pc \in {"perm", "pair", "range"}
    /\ count.perms < MaxPerms
    /\ loc' = [loc EXCEPT !.permission = permission,
                          !.from_port = PermissionLocals(permission).from_port,
                          !.to_port = PermissionLocals(permission).to_port,
                          !.protocol = PermissionLocals(permission).protocol]
    /\ count' = [count EXCEPT !.perms = @ + 1]
    /\ pc' = "pair"
    /\ UNCHANGED <<kind, graph, highlight_sg, outcome, fresh, hist, args, result, cache, now>>

\* for group_pair in permission.get("UserIdGroupPairs", [])
NextGroupPair(group_pair) ==
    /\ pc = "pair"
    /\ count.sources < MaxSources
    /\ graph' = AddGroupPair(kind, graph, highlight_sg, loc, group_pair)
    /\ fresh' = [fresh EXCEPT !.graph = AddGroupPair(kind, @, fresh.highlight_sg, loc, group_pair)]
    /\ hist' = HistGroupPair(hist, loc, group_pair)
    /\ count' = [count EXCEPT !.sources = @ + 1]
    /\ UNCHANGED <<kind, highlight_sg, pc, loc, outcome, args, result, cache, now>>

\* for ip_range in permission.get("IpRanges", [])
NextIpRange(ip_range) ==
    /\ pc \in {"pair", "range"}
    /\ count.sources < MaxSources
    /\ graph' = AddIpRange(kind, graph, loc, ip_range)
    /\ fresh' = [fresh EXCEPT !.graph = AddIpRange(kind, @, loc, ip_range)]
    /\ hist' = HistIpRange(hist, loc, ip_range)
    /\ count' = [count EXCEPT !.sources = @ + 1]
    /\ pc' = "range"
    /\ UNCHANGED <<kind, highlight_sg, loc, outcome, args, result, cache, now>>

\* the record loop is exhausted: build_graph returns
BuildReturn ==
    /\ InBuild
    /\ pc' = "idle"
    /\ outcome' = "returned"
    /\ loc' = NoLocals
    /\ UNCHANGED <<kind, graph, highlight_sg, count, fresh, hist, args, result, cache, now>>

Next ==
    \/ Clear
    \/ \E highlight \in HighlightArgs : BuildGraph(highlight)
    \/ \E sg \in SecurityGroups \cup RecordsWithoutId : NextSecurityGroup(sg)
    \/ \E sg \in SecurityGroups \cup RecordsWithoutId : MissingGroupId(sg)
    \/ \E permission \in Permissions : NextPermission(permission)
    \/ \E group_pair \in GroupPairs : NextGroupPair(group_pair)
    \/ \E ip_range \in IpRanges : NextIpRange(ip_range)
    \/ BuildReturn

Spec == Init /\ [][Next]_vars

(***************************************************************************)
(* One instance that is given the same list of records again and again.    *)
(***************************************************************************)
\* the sequences over S of length at most n
SeqsUpTo(S, n) == UNION {[1..k -> S] : k \in 0..n}

\* the rules of the records: no source, one group reference, one address
\* range, one of each, or sources among which one has no or an empty
\* GroupId or CidrIp
InputRules ==
    { permission @@ sources :
        permission \in Permissions,
        sources \in
          { EmptyDict,
            [UserIdGroupPairs |-> <<[GroupId |-> "sg-A"]>>],
            [UserIdGroupPairs |-> <<[GroupId |-> "sg-B", VpcId |-> "vpc-1"]>>],
            [UserIdGroupPairs |-> <<[GroupId |-> "sg-B", VpcId |-> "vpc-2"]>>],
            [IpRanges |-> <<[CidrIp |-> "0.0.0.0/0"]>>],
            [UserIdGroupPairs |-> <<[GroupId |-> "sg-A", VpcId |-> "vpc-2"]>>,
             IpRanges |-> <<[CidrIp |-> "192.168.1.0/24"]>>],
            [UserIdGroupPairs |-> <<[VpcId |-> "vpc-2"],
                                    [GroupId |-> "sg-B", VpcId |-> "vpc-2"]>>],
            [UserIdGroupPairs |-> <<[GroupId |-> "", VpcId |-> "vpc-2"]>>,
             IpRanges |-> <<EmptyDict, [CidrIp |-> "0.0.0.0/0"]>>],
            [IpRanges |-> <<[CidrIp |-> ""], [CidrIp |-> "192.168.1.0/24"]>>] } }

\* the records: with or without the optional fields, without IpPermissions
\* or with one rule
InputRecords ==
    { sg @@ permissions :
        sg \in {r \in SecurityGroups : Get(r, "VpcId", "vpc-1") = "vpc-1"},
        permissions \in {EmptyDict} \cup {[IpPermissions |-> <<rule>>] : rule \in InputRules} }

InitRebuild ==
    /\ kind \in Kinds
    /\ graph = EmptyGraph
    /\ highlight_sg = NoneValue
    /\ pc = "idle"
    /\ loc = NoLocals
    /\ count = NoCount
    /\ outcome = "none"
    /\ fresh = FreshInstance
    /\ hist = NoHist
    /\ args \in SeqsUpTo(InputRecords, MaxRecords)
    /\ result = NoneValue
    /\ cache = EmptyDict
    /\ now = 0

\* build_graph(args, highlight), the whole call; result keeps what the first
\* call left in the instance
BuildGraphCall(highlight) ==
    /\ pc = "idle"
    /\ count.builds < MaxBuilds
    /\ Highlights(kind) \/ highlight = NoneValue
    /\ graph' = build_graph(kind, graph, highlight, args)
    /\ highlight_sg' = IF Highlights(kind) THEN highlight ELSE highlight_sg
    /\ fresh' = [graph |-> build_graph(kind, EmptyGraph, highlight, args),
                 highlight_sg |-> highlight]
    /\ result' = IF count.builds = 0
                 THEN [graph |-> graph', highlight_sg |-> highlight]
                 ELSE result
    /\ count' = [count EXCEPT !.builds = @ + 1]
    /\ outcome' = "returned"
    /\ UNCHANGED <<kind, pc, loc, hist, args, cache, now>>

NextRebuild == \E highlight \in HighlightArgs : BuildGraphCall(highlight)

SpecRebuild == InitRebuild /\ [][NextRebuild]_vars

(***************************************************************************)
(* format_ports called on its own.                                         *)
(***************************************************************************)
Ports == {-2, -1, 0, 22, 80, 443, 1024, 3306, 8080, 65535}

InitPorts ==
    /\ kind = NoneValue
    /\ graph = EmptyGraph
    /\ highlight_sg = NoneValue
    /\ pc = "idle"
    /\ loc = NoLocals
    /\ count = NoCount
    /\ outcome = "none"
    /\ fresh = FreshInstance
    /\ hist = NoHist
    /\ args \in [from_port : Ports, to_port : Ports]
    /\ result = NoneValue
    /\ cache = EmptyDict
    /\ now = 0

\* result = format_ports(from_port, to_port)
FormatPortsCall ==
    /\ outcome = "none"
    /\ result' = format_ports(args.from_port, args.to_port)
    /\ outcome' = "returned"
    /\ UNCHANGED <<kind, graph, highlight_sg, pc, loc, count, fresh, hist, args, cache, now>>

NextPorts == FormatPortsCall

SpecPorts == InitPorts /\ [][NextPorts]_vars

(***************************************************************************)
(* get_friendly_cidr_name called on its own.                               *)
(***************************************************************************)
CidrStrings == PrivateNetworks \cup GlobalNetworks \cup SharedNetworks \cup MalformedNetworks

InitCidr ==
    /\ kind = NoneValue
    /\ graph = EmptyGraph
    /\ highlight_sg = NoneValue
    /\ pc = "idle"
    /\ loc = NoLocals
    /\ count = NoCount
    /\ outcome = "none"
    /\ fresh = FreshInstance
    /\ hist = NoHist
    /\ args \in [cidr : CidrStrings]
    /\ result = NoneValue
    /\ cache = EmptyDict
    /\ now = 0

\* result = get_friendly_cidr_name(cidr), or the call is left by ValueError
FriendlyCidrNameCall ==
    /\ outcome = "none"
    /\ IF get_friendly_cidr_name(args.cidr) = ValueError
       THEN result' = NoneValue /\ outcome' = "ValueError"
       ELSE result' = get_friendly_cidr_name(args.cidr) /\ outcome' = "returned"
    /\ UNCHANGED <<kind, graph, highlight_sg, pc, loc, count, fresh, hist, args, cache, now>>

NextCidr == FriendlyCidrNameCall

SpecCidr == InitCidr /\ [][NextCidr]_vars

(***************************************************************************)
(* The cache of fetched records (cache_handler.py) and the collection that *)
(* reads and fills it (aws_sg_mapper.py).  cache maps <<profile, region>>  *)
(* to the file of that name: a file that json.load reads has timestamp and *)
(* data, a file left by a failed write has neither.  json.dump and         *)
(* json.load turn lists of dicts of strings into text and back into equal  *)
(* lists, so a readable file holds the list that was written.              *)
(***************************************************************************)
CACHE_DURATION == 3600

MaxCalls == 3
MaxTicks == 2

Profiles == {"prod"}
Regions == {"us-east-1", "eu-west-1"}

\* the security groups the account has in each region
DescribeSecurityGroups(profile, region) ==
    IF region = "us-east-1"
    THEN <<[GroupId |-> "sg-A"], [GroupId |-> "sg-B"]>>
    ELSE <<[GroupId |-> "sg-C"]>>

\* the id filters of a call: none, an empty one, one id, two ids of two regions
IdFilters == {NoneValue, <<>>, <<"sg-A">>, <<"sg-B", "sg-C">>}

\* an Optional[List[Dict]]: None, or a list
None == [none |-> TRUE]

Some(data) == [some |-> data]

IsTruthyList(x) == x # None /\ x.some # <<>>

\* what is left of a file whose write failed
Unreadable == [unreadable |-> TRUE]

Readable(c, key) == key \in DOMAIN c /\ c[key] # Unreadable

\* get_cached_data that takes an entry of age CACHE_DURATION for expired
get_cached_data_ExpiresAtDuration(c, t, profile, region) ==
    LET cache_path == <<profile, region>>
    IN IF cache_path \notin DOMAIN c
       THEN None
       ELSE IF c[cache_path] = Unreadable
            THEN None
            ELSE IF t - c[cache_path].timestamp >= CACHE_DURATION
                 THEN None
                 ELSE Some(c[cache_path].data)

\* CacheHandler.get_cached_data at time t
get_cached_data(c, t, profile, region) ==
    LET cache_path == <<profile, region>>
    IN IF cache_path \notin DOMAIN c
       THEN None
       ELSE IF c[cache_path] = Unreadable
            THEN None
            ELSE IF t - c[cache_path].timestamp > CACHE_DURATION
                 THEN None
                 ELSE Some(c[cache_path].data)

\* CacheHandler.save_to_cache at time t: the file is written, or open fails
\* and leaves what was there, or the write fails in a file open() has emptied
save_to_cache(c, t, profile, region, data, io) ==
    CASE io = "written" -> (<<profile, region>> :> [timestamp |-> t, data |-> data]) @@ c
      [] io = "truncated" -> (<<profile, region>> :> Unreadable) @@ c
      [] OTHER -> c

\* CacheHandler.clear_cache
clear_cache(c, profile, region) ==
    IF Truthy(profile) /\ Truthy(region)
    THEN [k \in DOMAIN c \ {<<profile, region>>} |-> c[k]]
    ELSE EmptyDict

\* AWSClient.get_security_groups(): every group of the region, [] on ClientError
get_security_groups(profile, region, down) ==
    IF region \in down THEN <<>> ELSE DescribeSecurityGroups(profile, region)

\* [sg for sg in groups if sg["GroupId"] in security_group_ids]
RECURSIVE FilterByIds(_, _)
FilterByIds(groups, security_group_ids) ==
    IF groups = <<>>
    THEN <<>>
    ELSE (IF \E i \in 1..Len(security_group_ids) : security_group_ids[i] = Head(groups)["GroupId"]
          THEN <<Head(groups)>>
          ELSE <<>>) \o FilterByIds(Tail(groups), security_group_ids)

\* the loop over security_group_ids: get_security_group_details of each id,
\* appended unless it is None (ClientError on every attempt)
RECURSIVE FetchByIds(_, _, _, _)
FetchByIds(profile, region, security_group_ids, down) ==
    IF security_group_ids = <<>>
    THEN <<>>
    ELSE FilterByIds(get_security_groups(profile, region, down), <<Head(security_group_ids)>>)
           \o FetchByIds(profile, region, Tail(security_group_ids), down)

HasIds(security_group_ids) == security_group_ids # NoneValue /\ security_group_ids # <<>>

\* the pairs of "for profile in profiles: for region in regions", in order
RECURSIVE ProfileRegionPairs(_, _)
ProfileRegionPairs(profiles, regions) ==
    IF profiles = <<>>
    THEN <<>>
    ELSE [i \in 1..Len(regions) |-> <<Head(profiles), regions[i]>>]
           \o ProfileRegionPairs(Tail(profiles), regions)

\* collect_security_groups: the two loops, from the pairs still to come
RECURSIVE CollectLoop(_, _, _, _, _, _)
CollectLoop(pairs, security_group_ids, down, c, t, all_security_groups) ==
    IF pairs = <<>>
    THEN [cache |-> c, all_security_groups |-> all_security_groups]
    ELSE LET profile == Head(pairs)[1]
             region == Head(pairs)[2]
             cached_data == get_cached_data(c, t, profile, region)
             security_groups ==
               IF HasIds(security_group_ids)
               THEN FetchByIds(profile, region, security_group_ids, down)
               ELSE get_security_groups(profile, region, down)
         IN IF IsTruthyList(cached_data)
            THEN CollectLoop(Tail(pairs), security_group_ids, down, c, t,
                   all_security_groups
                     \o (IF HasIds(security_group_ids)
                         THEN FilterByIds(cached_data.some, security_group_ids)
                         ELSE cached_data.some))
            ELSE IF security_groups # <<>>
                 THEN CollectLoop(Tail(pairs), security_group_ids, down,
                        save_to_cache(c, t, profile, region, security_groups, "written"),
                        t, all_security_groups \o security_groups)
                 ELSE CollectLoop(Tail(pairs), security_group_ids, down,
                        c, t, all_security_groups)

\* what the cache handler was last asked to write, and by whom
NoSaves == [saved |-> EmptyDict, by |-> EmptyDict]

\* the files a call of collect_security_groups wrote
SavedByCollect(h, before, after, t) ==
    LET written == {k \in DOMAIN after : k \notin DOMAIN before \/ after[k] # before[k]}
    IN [saved |-> [k \in written |-> after[k]] @@ h.saved,
        by |-> [k \in written |-> "collect_security_groups"] @@ h.by]

InitCache ==
    /\ kind = NoneValue
    /\ graph = EmptyGraph
    /\ highlight_sg = NoneValue
    /\ pc = "idle"
    /\ loc = NoLocals
    /\ count = [calls |-> 0, ticks |-> 0]
    /\ outcome = "none"
    /\ fresh = FreshInstance
    /\ hist = NoSaves
    /\ args = NoneValue
    /\ result = NoneValue
    /\ cache = EmptyDict
    /\ now = 0

\* collect_security_groups(profiles, regions, security_group_ids), the whole
\* call; down are the regions whose API calls end in ClientError
CollectSecurityGroups(profiles, regions, security_group_ids, down) ==
    /\ count.calls < MaxCalls
    /\ LET end == CollectLoop(ProfileRegionPairs(profiles, regions), security_group_ids,
                              down, cache, now, <<>>)
       IN /\ cache' = end.cache
          /\ result' = end.all_security_groups
          /\ hist' = SavedByCollect(hist, cache, end.cache, now)
    /\ args' = [op |-> "collect_security_groups", profiles |-> profiles, regions |-> regions,
                security_group_ids |-> security_group_ids, down |-> down]
    /\ outcome' = "returned"
    /\ count' = [count EXCEPT !.calls = @ + 1]
    /\ UNCHANGED <<kind, graph, highlight_sg, pc, loc, fresh, now>>

\* cache_handler.get_cached_data(profile, region)
GetCachedData(profile, region) ==
    /\ result' = get_cached_data(cache, now, profile, region)
    /\ args' = [op |-> "get_cached_data", profile |-> profile, region |-> region]
    /\ outcome' = "returned"
    /\ UNCHANGED <<kind, graph, highlight_sg, pc, loc, count, fresh, hist, cache, now>>

\* cache_handler.save_to_cache(profile, region, data)
SaveToCache(profile, region, data, io) ==
    /\ count.calls < MaxCalls
    /\ cache' = save_to_cache(cache, now, profile, region, data, io)
    /\ hist' = IF io = "written"
               THEN [saved |-> (<<profile, region>> :> [timestamp |-> now, data |-> data])
                                 @@ hist.saved,
                     by |-> (<<profile, region>> :> "save_to_cache") @@ hist.by]
               ELSE hist
    /\ args' = [op |-> "save_to_cache", profile |-> profile, region |-> region,
                data |-> data, io |-> io]
    /\ result' = NoneValue
    /\ outcome' = "returned"
    /\ count' = [count EXCEPT !.calls = @ + 1]
    /\ UNCHANGED <<kind, graph, highlight_sg, pc, loc, fresh, now>>

\* cache_handler.clear_cache(profile, region)
ClearCache(profile, region) ==
    /\ count.calls < MaxCalls
    /\ cache' = clear_cache(cache, profile, region)
    /\ args' = [op |-> "clear_cache", profile |-> profile, region |-> region]
    /\ result' = NoneValue
    /\ outcome' = "returned"
    /\ count' = [count EXCEPT !.calls = @ + 1]
    /\ UNCHANGED <<kind, graph, highlight_sg, pc, loc, fresh, hist, now>>

\* time passes between two calls
Tick(seconds) ==
    /\ count.ticks < MaxTicks
    /\ now' = now + seconds
    /\ count' = [count EXCEPT !.ticks = @ + 1]
    /\ UNCHANGED <<kind, graph, highlight_sg, pc, loc, outcome, fresh, hist, args, result, cache>>

\* the lists handed to save_to_cache
SavedLists == {<<[GroupId |-> "sg-A"]>>, <<[GroupId |-> "sg-A"], [GroupId |-> "sg-B"]>>}

NextCache ==
    \/ \E regions \in {<<"us-east-1">>, <<"us-east-1", "eu-west-1">>},
          security_group_ids \in IdFilters, down \in SUBSET Regions :
         CollectSecurityGroups(<<"prod">>, regions, security_group_ids, down)
    \/ \E profile \in Profiles, region \in Regions : GetCachedData(profile, region)
    \/ \E profile \in Profiles, region \in Regions, data \in SavedLists,
          io \in {"written", "truncated", "denied"} :
         SaveToCache(profile, region, data, io)
    \/ \E profile \in Optional(Profiles), region \in Optional(Regions) :
         ClearCache(profile, region)
    \/ \E seconds \in {1, CACHE_DURATION} : Tick(seconds)

SpecCache == InitCache /\ [][NextCache]_vars

(***************************************************************************)
(* AWSClient.get_security_group_details outside mock mode: the retry loop, *)
(* one step per test of the loop, describe call and sleep.  MAX_RETRIES    *)
(* and RETRY_DELAY are read from the configuration; a call runs under one  *)
(* setting of the two, their defaults among them.                          *)
(***************************************************************************)
MAX_RETRIES == 3

RETRY_DELAY == 5

MaxRetriesSettings == 0..(MAX_RETRIES + 1)

RetryDelaySettings == {0, RETRY_DELAY}

NoAttempts == [retries |-> 0, calls |-> 0, sleeps |-> 0, slept |-> 0]

InitRetry ==
    /\ kind = NoneValue
    /\ graph = EmptyGraph
    /\ highlight_sg = NoneValue
    /\ pc = "idle"
    /\ loc = NoAttempts
    /\ count = NoCount
    /\ outcome = "none"
    /\ fresh = FreshInstance
    /\ hist = NoHist
    /\ args \in [group_id : GroupIds, MAX_RETRIES : MaxRetriesSettings,
                 RETRY_DELAY : RetryDelaySettings]
    /\ result = None
    /\ cache = EmptyDict
    /\ now = 0

\* get_security_group_details(group_id): retries = 0
GetSecurityGroupDetails ==
    /\ pc = "idle"
    /\ outcome = "none"
    /\ loc' = NoAttempts
    /\ pc' = "while"
    /\ UNCHANGED <<kind, graph, highlight_sg, count, outcome, fresh, hist, args, result, cache, now>>

\* while retries < MAX_RETRIES, and "return None" behind the loop
WhileRetries ==
    /\ pc = "while"
    /\ IF loc.retries < args.MAX_RETRIES
       THEN pc' = "try" /\ UNCHANGED <<result, outcome>>
       ELSE pc' = "idle" /\ result' = None /\ outcome' = "returned"
    /\ UNCHANGED <<kind, graph, highlight_sg, loc, count, fresh, hist, args, cache, now>>

\* describe_security_groups answers: return response['SecurityGroups'][0]
DescribeReturns ==
    /\ pc = "try"
    /\ loc' = [loc EXCEPT !.calls = @ + 1]
    /\ result' = Some([GroupId |-> args.group_id])
    /\ outcome' = "returned"
    /\ pc' = "idle"
    /\ UNCHANGED <<kind, graph, highlight_sg, count, fresh, hist, args, cache, now>>

\* the except clause that sleeps after every failed attempt
DescribeClientError_AlwaysSleeps ==
    /\ pc = "try"
    /\ loc' = [loc EXCEPT !.calls = @ + 1, !.retries = @ + 1]
    /\ pc' = "sleep"
    /\ UNCHANGED <<kind, graph, highlight_sg, count, outcome, fresh, hist, args, result, cache, now>>

\* describe_security_groups raises ClientError: retries += 1, and the sleep
\* is due if retries < MAX_RETRIES
DescribeClientError ==
    /\ pc = "try"
    /\ loc' = [loc EXCEPT !.calls = @ + 1, !.retries = @ + 1]
    /\ pc' = IF loc.retries + 1 < args.MAX_RETRIES THEN "sleep" ELSE "while"
    /\ UNCHANGED <<kind, graph, highlight_sg, count, outcome, fresh, hist, args, result, cache, now>>

\* describe_security_groups raises something else than ClientError, which
\* no clause catches: the exception leaves the call
DescribeOtherError ==
    /\ pc = "try"
    /\ loc' = [loc EXCEPT !.calls = @ + 1]
    /\ outcome' = "raised"
    /\ pc' = "idle"
    /\ UNCHANGED <<kind, graph, highlight_sg, count, fresh, hist, args, result, cache, now>>

\* time.sleep(RETRY_DELAY)
Sleep ==
    /\ pc = "sleep"
    /\ now' = now + args.RETRY_DELAY
    /\ loc' = [loc EXCEPT !.sleeps = @ + 1, !.slept = @ + args.RETRY_DELAY]
    /\ pc' = "while"
    /\ UNCHANGED <<kind, graph, highlight_sg, count, outcome, fresh, hist, args, result, cache>>

NextRetry ==
    \/ GetSecurityGroupDetails
    \/ WhileRetries
    \/ DescribeReturns
    \/ DescribeClientError
    \/ DescribeOtherError
    \/ Sleep

SpecRetry == InitRetry /\ [][NextRetry]_vars

\* the call runs on: a describe call answers or raises within the time
\* limits of the client, a sleep ends, and nothing else keeps the thread
\* (every step of the call changes pc or loc)
SpecRetryLive == SpecRetry /\ WF_<<pc, loc>>(NextRetry)

(***************************************************************************)
(* Properties.                                                             *)
(***************************************************************************)
\* build_graph has returned
Built == pc = "idle" /\ outcome = "returned"

NodeType(n) == IF n \in DOMAIN graph.node THEN Get(graph.node[n], "type", NoneValue) ELSE NoneValue

GroupNodes == {n \in DOMAIN graph.node : NodeType(n) = "security_group"}

CidrNodes == {n \in DOMAIN graph.node : NodeType(n) = "cidr"}

GroupEdges == {e \in DOMAIN graph.adj : e[1] \in GroupNodes /\ e[2] \in GroupNodes}

\* the container id a group reference gives, "Unknown VPC" when it gives none
RefVpc(group_pair) == Get(group_pair, "VpcId", "Unknown VPC")

\* C1 as stated: after build, an edge between two security group nodes is
\* cross-VPC exactly when the container ids stored on its two end nodes differ
\* and the source node's is not "Unknown VPC".
C1_CrossByNodeContainers ==
    Built =>
      \A e \in GroupEdges :
        graph.adj[e].is_cross_vpc
          <=> /\ graph.node[e[1]].vpc_id # graph.node[e[2]].vpc_id
              /\ graph.node[e[1]].vpc_id # "Unknown VPC"

\* C1 amended: an edge between two security group nodes is cross-VPC exactly
\* when the container id given by the group reference that last wrote it
\* ("Unknown VPC" when it gives none) differs from the container id of the
\* record that holds the reference and is not "Unknown VPC".
C1_CrossByReference ==
    \A e \in GroupEdges :
      /\ e \in DOMAIN hist.writer
      /\ hist.writer[e].via = "group"
      /\ graph.adj[e].is_cross_vpc
           <=> /\ RefVpc(hist.writer[e].source) # hist.writer[e].rule.vpc_id
               /\ RefVpc(hist.writer[e].source) # "Unknown VPC"

\* a built graph with a cross-VPC edge between two different nodes that store
\* the same container id
C1_Witness ==
    /\ Built
    /\ \E e \in GroupEdges :
         /\ e[1] # e[2]
         /\ graph.adj[e].is_cross_vpc
         /\ graph.node[e[1]].vpc_id = graph.node[e[2]].vpc_id

\* C2: between calls the instance holds exactly what the most recent call
\* puts into a new instance: the graph of the last build_graph and its
\* highlight id, or the empty graph and no highlight id after clear.
C2_OnlyLastBuild ==
    pc = "idle" => graph = fresh.graph /\ highlight_sg = fresh.highlight_sg

\* C3: the security group nodes are the ids of the records and of the
\* references, one node each, and the node of an id that has records carries
\* the name, description, container id and highlight flag of the last one.
C3_LastRecordWins ==
    /\ GroupNodes = DOMAIN hist.records \cup DOMAIN hist.firstRef
    /\ \A id \in DOMAIN hist.records :
         /\ id \in DOMAIN graph.node
         /\ graph.node[id].name = Get(hist.records[id], "GroupName", "Unknown")
         /\ graph.node[id].description = Get(hist.records[id], "Description", "")
         /\ graph.node[id].vpc_id = Get(hist.records[id], "VpcId", "Unknown VPC")
         /\ graph.node[id].type = "security_group"
         /\ Highlights(kind) => graph.node[id].is_highlighted = (id = highlight_sg)

\* a built graph in which the record of an id replaced a different record of
\* the same id
C3_Witness == Built /\ hist.replaced # {}

\* the node of id is the placeholder of a referenced group of container vpc
IsPlaceholder(id, vpc) ==
    /\ id \in DOMAIN graph.node
    /\ graph.node[id].name = "Security Group " \o id
    /\ graph.node[id].description = "Referenced Security Group"
    /\ graph.node[id].vpc_id = vpc
    /\ graph.node[id].type = "security_group"

\* C4 as stated: after build, every reference to an id without a record has
\* a placeholder node whose container id is that reference's, and an edge from
\* it to the record that holds the reference.
C4_PlaceholderOfEveryReference ==
    Built =>
      \A r \in hist.refs :
        r.source.GroupId \notin DOMAIN hist.records =>
          /\ IsPlaceholder(r.source.GroupId, RefVpc(r.source))
          /\ <<r.source.GroupId, r.group_id>> \in DOMAIN graph.adj

\* C4 amended: every reference to an id without a record has a placeholder
\* node whose container id is that of the first reference to the id, and an
\* edge from it to the record that holds the reference.
C4_PlaceholderOfFirstReference ==
    \A r \in hist.refs :
      r.source.GroupId \notin DOMAIN hist.records =>
        /\ r.source.GroupId \in DOMAIN hist.firstRef
        /\ IsPlaceholder(r.source.GroupId, RefVpc(hist.firstRef[r.source.GroupId]))
        /\ <<r.source.GroupId, r.group_id>> \in DOMAIN graph.adj

\* a built graph with two references to one id without a record that give
\* different container ids
C4_Witness ==
    /\ Built
    /\ \E r1, r2 \in hist.refs :
         /\ r1.source.GroupId = r2.source.GroupId
         /\ r1.source.GroupId \notin DOMAIN hist.records
         /\ RefVpc(r1.source) # RefVpc(r2.source)

\* C5 as stated: after build, a cross-VPC edge joins two security group nodes
\* whose stored container ids differ and are both known.
C5_CrossJoinsKnownContainers ==
    Built =>
      \A e \in DOMAIN graph.adj :
        graph.adj[e].is_cross_vpc =>
          /\ e \in GroupEdges
          /\ graph.node[e[1]].vpc_id # graph.node[e[2]].vpc_id
          /\ graph.node[e[1]].vpc_id # "Unknown VPC"
          /\ graph.node[e[2]].vpc_id # "Unknown VPC"

\* C5 amended: a cross-VPC edge joins two security group nodes and was last
\* written by a group reference whose container id is known and differs from
\* the container id of the record that holds it.
C5_CrossNeedsKnownReference ==
    \A e \in DOMAIN graph.adj :
      graph.adj[e].is_cross_vpc =>
        /\ e \in GroupEdges
        /\ e \in DOMAIN hist.writer
        /\ hist.writer[e].via = "group"
        /\ "VpcId" \in DOMAIN hist.writer[e].source
        /\ hist.writer[e].source.VpcId \notin {"Unknown VPC", hist.writer[e].rule.vpc_id}

\* a built graph with a cross-VPC edge into a node of unknown container
C5_Witness ==
    /\ Built
    /\ \E e \in DOMAIN graph.adj :
         /\ graph.adj[e].is_cross_vpc
         /\ graph.node[e[2]].vpc_id = "Unknown VPC"

\* C6: the edge of a group reference that gives no container id is not
\* cross-VPC.
C6_NoContainerNeverCross ==
    \A e \in DOMAIN graph.adj \cap DOMAIN hist.writer :
      (hist.writer[e].via = "group" /\ "VpcId" \notin DOMAIN hist.writer[e].source)
        => graph.adj[e].is_cross_vpc = FALSE

\* a built graph with the edge of a reference without container id, between
\* two records of different known containers
C6_Witness ==
    /\ Built
    /\ \E e \in DOMAIN graph.adj \cap DOMAIN hist.writer :
         /\ hist.writer[e].via = "group"
         /\ "VpcId" \notin DOMAIN hist.writer[e].source
         /\ e[1] \in DOMAIN hist.records
         /\ graph.node[e[1]].vpc_id # "Unknown VPC"
         /\ graph.node[e[2]].vpc_id # "Unknown VPC"
         /\ graph.node[e[1]].vpc_id # graph.node[e[2]].vpc_id

\* C7: there is one address block node per CIDR string named, its key is
\* "CIDR: " and its friendly name, and from it goes one edge to each group
\* whose records name the CIDR.
C7_OneNodePerCidr ==
    /\ \A n \in CidrNodes : n = "CIDR: " \o graph.node[n].name
    /\ Cardinality(CidrNodes) = Cardinality({p[1] : p \in hist.named})
    /\ \A p \in hist.named :
         /\ CidrNodeKey(p[1]) \in CidrNodes
         /\ graph.node[CidrNodeKey(p[1])].name = get_friendly_cidr_name(p[1])
    /\ {e \in DOMAIN graph.adj : e[1] \in CidrNodes}
         = {<<CidrNodeKey(p[1]), p[2]>> : p \in hist.named}

\* a built graph in which two groups name the same CIDR
C7_Witness ==
    /\ Built
    /\ \E p, q \in hist.named : p[1] = q[1] /\ p[2] # q[2]

\* C8: an edge out of an address block node is not cross-VPC.
C8_CidrEdgesNeverCross ==
    \A e \in DOMAIN graph.adj :
      NodeType(e[1]) = "cidr" => graph.adj[e].is_cross_vpc = FALSE

\* a built graph with an edge from an address block node into a group of
\* known container
C8_Witness ==
    /\ Built
    /\ \E e \in DOMAIN graph.adj :
         /\ NodeType(e[1]) = "cidr"
         /\ graph.node[e[2]].vpc_id # "Unknown VPC"

\* C9: the edges are those asked for by the references and ranges, each from
\* the referenced group or the address block node to the record that holds
\* the rule; both ends are nodes and the target is a security group node.
C9_EdgesPointAtOwner ==
    /\ DOMAIN graph.adj = DOMAIN hist.writer
    /\ \A e \in DOMAIN graph.adj :
         /\ e[1] \in DOMAIN graph.node
         /\ e[2] \in DOMAIN graph.node
         /\ e[2] \in DOMAIN hist.records
         /\ NodeType(e[2]) = "security_group"
    /\ \A r \in hist.refs :
         /\ <<r.source.GroupId, r.group_id>> \in DOMAIN graph.adj
         /\ NodeType(r.source.GroupId) = "security_group"
    /\ \A p \in hist.named :
         /\ <<"CIDR: " \o get_friendly_cidr_name(p[1]), p[2]>> \in DOMAIN graph.adj
         /\ NodeType("CIDR: " \o get_friendly_cidr_name(p[1])) = "cidr"
    /\ Cardinality(DOMAIN graph.adj)
         = Cardinality({<<r.source.GroupId, r.group_id>> : r \in hist.refs})
           + Cardinality(hist.named)

\* a built graph with an edge from a group that has no record and an edge
\* from an address block
C9_Witness ==
    /\ Built
    /\ \E e \in GroupEdges : e[1] \notin DOMAIN hist.records
    /\ \E e \in DOMAIN graph.adj : e[1] \in CidrNodes

\* C10: an ordered pair has one edge, and its attributes are exactly those
\* of the rule and reference or range that last wrote it.
C10_LastRuleWins ==
    \A e \in DOMAIN graph.adj :
      /\ e \in DOMAIN hist.writer
      /\ graph.adj[e] =
           EdgeAttrs(kind, hist.writer[e].rule,
                     /\ hist.writer[e].via = "group"
                     /\ RefVpc(hist.writer[e].source)
                          \notin {hist.writer[e].rule.vpc_id, "Unknown VPC"})

\* a built graph with an edge written again by another rule
C10_Witness == Built /\ hist.rewrote # {}

\* the nodes flagged is_highlighted
HighlightedNodes ==
    {n \in DOMAIN graph.node : Get(graph.node[n], "is_highlighted", FALSE)}

\* C11: a security group node, of a record or of a reference, is flagged
\* is_highlighted exactly when its id is the highlight id of the build; so at
\* most one node is flagged, and none when the highlight id is absent or is
\* not the id of a node.
C11_HighlightIffFocus ==
    /\ \A n \in GroupNodes :
         /\ Highlights(kind) => "is_highlighted" \in DOMAIN graph.node[n]
         /\ Get(graph.node[n], "is_highlighted", FALSE) = (n = highlight_sg)
    /\ HighlightedNodes \subseteq GroupNodes
    /\ Cardinality(HighlightedNodes) <= 1
    /\ (highlight_sg = NoneValue \/ highlight_sg \notin DOMAIN graph.node)
         => HighlightedNodes = {}

\* g without the is_highlighted flags
StripHighlight(g) ==
    [node |-> [n \in DOMAIN g.node |->
                 [k \in DOMAIN g.node[n] \ {"is_highlighted"} |-> g.node[n][k]]],
     adj |-> g.adj]

\* C12: whatever highlight id the records are built with, the graph has the
\* same nodes, the same edges and the same attributes on every node and edge,
\* is_highlighted apart.
C12_HighlightChangesOnlyFlag ==
    (count.builds >= 1 /\ Highlights(kind)) =>
      \A h \in HighlightArgs :
        StripHighlight(build_graph(kind, graph, h, args)) = StripHighlight(graph)

\* records built with the highlight id of a node that has edges: the graph
\* differs from the one built without highlight id
C12_Witness ==
    /\ count.builds >= 1
    /\ highlight_sg # NoneValue
    /\ \E e \in DOMAIN graph.adj : e[1] \in HighlightedNodes \/ e[2] \in HighlightedNodes
    /\ build_graph(kind, graph, NoneValue, args) # graph

\* C13: a second build from the same records and highlight id leaves what the
\* first build left, which is also what a new instance holds after one build.
C13_RebuildLeavesSameGraph ==
    (count.builds >= 2 /\ result.highlight_sg = fresh.highlight_sg) =>
      /\ graph = result.graph
      /\ graph = fresh.graph

\* an instance that does not clear, built twice from records in which a
\* group is referenced from another container before its own record comes
C13_Witness ==
    /\ count.builds = 2
    /\ ~Clears(kind)
    /\ \E e \in DOMAIN graph.adj :
         /\ graph.adj[e].is_cross_vpc
         /\ graph.node[e[1]].vpc_id = "Unknown VPC"

\* a built graph whose flagged node is the placeholder of a reference, beside
\* a record's node that is not flagged
C11_Witness ==
    /\ Built
    /\ \E n \in HighlightedNodes : n \notin DOMAIN hist.records
    /\ \E n \in GroupNodes : n \in DOMAIN hist.records /\ n \notin HighlightedNodes

\* C14: a missing optional field raises nothing and reads as its default: a
\* raise is met only on a record without GroupId; the node of a record without
\* GroupName, Description or VpcId carries "Unknown", "" and "Unknown VPC";
\* the locals and the edges of a rule without FromPort, ToPort or IpProtocol
\* carry -1, -1 and "-1" ("All" where the class shows the protocol).
C14_MissingFieldsGetDefaults ==
    /\ outcome = "KeyError" => "GroupId" \notin DOMAIN loc.sg
    /\ \A id \in DOMAIN hist.records :
         /\ "GroupName" \notin DOMAIN hist.records[id] => graph.node[id].name = "Unknown"
         /\ "Description" \notin DOMAIN hist.records[id] => graph.node[id].description = ""
         /\ "VpcId" \notin DOMAIN hist.records[id] => graph.node[id].vpc_id = "Unknown VPC"
    /\ pc \in {"pair", "range"} =>
         /\ "FromPort" \notin DOMAIN loc.permission => loc.from_port = -1
         /\ "ToPort" \notin DOMAIN loc.permission => loc.to_port = -1
         /\ "IpProtocol" \notin DOMAIN loc.permission => loc.protocol = "-1"
    /\ \A e \in DOMAIN graph.adj \cap DOMAIN hist.writer :
         hist.writer[e].rule.permission = EmptyDict =>
           /\ graph.adj[e].ports = IF ProtocolEdges(kind) THEN "-1" ELSE "-1--1"
           /\ ProtocolEdges(kind) => graph.adj[e].protocol = "All"
           /\ ~ProtocolEdges(kind) => graph.adj[e].label = "-1:-1"

\* a built graph with a record that has the GroupId only, and an edge into it
\* written by a rule without ports and protocol
C14_Witness ==
    /\ Built
    /\ \E e \in DOMAIN graph.adj \cap DOMAIN hist.writer :
         /\ hist.writer[e].rule.permission = EmptyDict
         /\ DOMAIN hist.writer[e].rule.sg = {"GroupId"}
         /\ e[2] \in DOMAIN hist.records
         /\ DOMAIN hist.records[e[2]] = {"GroupId"}

\* C15: when the record loop comes to a record without GroupId, the call ends
\* there with KeyError: the record adds nothing to the graph under any id and
\* the loop does not go on.
C15_MissingIdRaises ==
    [][(InBuild /\ count'.records # count.records /\ "GroupId" \notin DOMAIN loc'.sg)
         => (pc' = "idle" /\ outcome' = "KeyError" /\ graph' = graph)]_vars

\* a call ended by KeyError after it had added the node of an earlier record
C15_Witness ==
    /\ pc = "idle"
    /\ outcome = "KeyError"
    /\ "GroupId" \notin DOMAIN loc.sg
    /\ DOMAIN fresh.graph.node # {}

\* C16: a call of build_graph that is given no record returns and leaves the
\* graph without nodes and edges, whatever the instance held before.
C16_EmptyBuildLeavesEmptyGraph ==
    (Built /\ fresh.graph = EmptyGraph) => graph = EmptyGraph

\* C17: nodes other than those of the records, and edges, come only from
\* group references and address ranges: every such node is the source a
\* reference or range names, every edge goes from such a source to the record
\* that holds it, and records and rules without any leave the records' nodes
\* and no edge.
C17_OnlySourcesAddEdges ==
    /\ DOMAIN graph.node \ DOMAIN hist.records
         \subseteq {r.source.GroupId : r \in hist.refs}
                   \cup {CidrNodeKey(p[1]) : p \in hist.named}
    /\ \A e \in DOMAIN graph.adj :
         \/ \E r \in hist.refs : e = <<r.source.GroupId, r.group_id>>
         \/ \E p \in hist.named : e = <<CidrNodeKey(p[1]), p[2]>>
    /\ (hist.refs = {} /\ hist.named = {}) =>
         /\ DOMAIN graph.adj = {}
         /\ DOMAIN graph.node = DOMAIN hist.records

\* a graph built from one record with a rule that has neither a group
\* reference nor an address range: one node, no edge
C17_Witness ==
    /\ Built
    /\ count.builds = 1
    /\ count.perms >= 1
    /\ count.sources = 0
    /\ Cardinality(DOMAIN graph.node) = 1
    /\ DOMAIN graph.adj = {}

\* the rule that last wrote the edge e
RuleOf(e) == hist.writer[e].rule

\* C18 as stated: every edge carries label "{protocol}:{format_ports}" and
\* ports "{from}-{to}" of the rule that wrote it.
C18_LabelAndPortRange ==
    Built =>
      \A e \in DOMAIN graph.adj \cap DOMAIN hist.writer :
        /\ "label" \in DOMAIN graph.adj[e]
        /\ graph.adj[e].label
             = RuleOf(e).protocol \o ":" \o format_ports(RuleOf(e).from_port, RuleOf(e).to_port)
        /\ graph.adj[e].ports
             = ToString(RuleOf(e).from_port) \o "-" \o ToString(RuleOf(e).to_port)

\* C18 amended: an edge of BaseVisualizer or GraphGenerator carries that
\* label and ports "{from}-{to}", also when from equals to; an edge of
\* MatplotlibVisualizer or PlotlyVisualizer carries no label but protocol
\* ("All" for "-1"), ports = format_ports(from, to) and direction "INGRESS".
C18_EdgeFieldsPerClass ==
    \A e \in DOMAIN graph.adj \cap DOMAIN hist.writer :
      IF kind \in {"MatplotlibVisualizer", "PlotlyVisualizer"}
      THEN /\ DOMAIN graph.adj[e] = {"protocol", "ports", "direction", "is_cross_vpc"}
           /\ graph.adj[e].protocol
                = (IF RuleOf(e).protocol = "-1" THEN "All" ELSE RuleOf(e).protocol)
           /\ graph.adj[e].ports = format_ports(RuleOf(e).from_port, RuleOf(e).to_port)
           /\ graph.adj[e].direction = "INGRESS"
      ELSE /\ DOMAIN graph.adj[e] = {"label", "ports", "is_cross_vpc"}
           /\ graph.adj[e].label
                = RuleOf(e).protocol \o ":"
                    \o format_ports(RuleOf(e).from_port, RuleOf(e).to_port)
           /\ graph.adj[e].ports
                = ToString(RuleOf(e).from_port) \o "-" \o ToString(RuleOf(e).to_port)

\* a graph built by a class with labelled edges, with an edge of a rule whose
\* two ports are equal
C18_Witness ==
    /\ Built
    /\ kind \in {"BaseVisualizer", "GraphGenerator"}
    /\ \E e \in DOMAIN graph.adj \cap DOMAIN hist.writer :
         RuleOf(e).from_port = RuleOf(e).to_port

\* the fields of an edge that hold the protocol as the rule gives it
RawProtocolFields(e) ==
    {k \in DOMAIN graph.adj[e] \cap {"protocol", "raw_protocol", "ip_protocol", "IpProtocol"} :
       graph.adj[e][k] = "-1"}

\* C19 as stated: the edge of a rule with protocol "-1" shows "All" where it
\* shows the protocol (in its label, or in the protocol field the renderer
\* puts into the label) and keeps the raw "-1" in a field of its own.
C19_AllShownRawKept ==
    Built =>
      \A e \in DOMAIN graph.adj \cap DOMAIN hist.writer :
        RuleOf(e).protocol = "-1" =>
          /\ "label" \in DOMAIN graph.adj[e] =>
               graph.adj[e].label
                 = "All:" \o format_ports(RuleOf(e).from_port, RuleOf(e).to_port)
          /\ "label" \notin DOMAIN graph.adj[e] => graph.adj[e].protocol = "All"
          /\ RawProtocolFields(e) # {}

\* C19 amended: for a rule with protocol "-1", an edge of MatplotlibVisualizer
\* or PlotlyVisualizer holds "All" in its protocol field and the raw "-1" in
\* no field; an edge of BaseVisualizer or GraphGenerator has no protocol
\* field and its label starts with the raw "-1", never with "All".
C19_AllOnlyWhereProtocolIsAField ==
    \A e \in DOMAIN graph.adj \cap DOMAIN hist.writer :
      RuleOf(e).protocol = "-1" =>
        /\ RawProtocolFields(e) = {}
        /\ IF kind \in {"MatplotlibVisualizer", "PlotlyVisualizer"}
           THEN /\ graph.adj[e].protocol = "All"
                /\ "label" \notin DOMAIN graph.adj[e]
           ELSE /\ "protocol" \notin DOMAIN graph.adj[e]
                /\ graph.adj[e].label
                     = "-1:" \o format_ports(RuleOf(e).from_port, RuleOf(e).to_port)

\* a graph built by a class with a protocol field, with an edge of a rule
\* whose protocol is "-1"
C19_Witness ==
    /\ Built
    /\ kind \in {"MatplotlibVisualizer", "PlotlyVisualizer"}
    /\ \E e \in DOMAIN graph.adj \cap DOMAIN hist.writer : RuleOf(e).protocol = "-1"

\* the decimal numeral of an integer, digit by digit
Digit(d) ==
    CASE d = 0 -> "0" [] d = 1 -> "1" [] d = 2 -> "2" [] d = 3 -> "3" [] d = 4 -> "4"
      [] d = 5 -> "5" [] d = 6 -> "6" [] d = 7 -> "7" [] d = 8 -> "8" [] d = 9 -> "9"

RECURSIVE DecimalNat(_)
DecimalNat(n) == IF n < 10 THEN Digit(n) ELSE DecimalNat(n \div 10) \o Digit(n % 10)

Decimal(n) == IF n < 0 THEN "-" \o DecimalNat(-n) ELSE DecimalNat(n)

\* C20: format_ports returns the decimal numeral of from_port when the two
\* ports are equal ("-1" for -1 and -1, "443" for 443 and 443), else the two
\* numerals joined by "-" ("1024-65535"), for every pair of ports.
C20_SinglePortOrRange ==
    outcome = "returned" =>
      /\ result = IF args.from_port = args.to_port
                  THEN Decimal(args.from_port)
                  ELSE Decimal(args.from_port) \o "-" \o Decimal(args.to_port)
      /\ (args.from_port = -1 /\ args.to_port = -1) => result = "-1"
      /\ (args.from_port = 443 /\ args.to_port = 443) => result = "443"
      /\ (args.from_port = 1024 /\ args.to_port = 65535) => result = "1024-65535"

\* format_ports has returned for two equal negative ports
C20_Witness ==
    /\ outcome = "returned"
    /\ args.from_port = -1
    /\ args.to_port = -1
    /\ result = "-1"

\* the two labels of a classified network
PrivateLabel(cidr) == "Private Network (" \o cidr \o ")"

PublicLabel(cidr) == "Public Network (" \o cidr \o ")"

\* get_friendly_cidr_name has returned for a string that is not a key of
\* common_cidrs and that ip_network parses
ValidUnmappedReturned ==
    /\ outcome = "returned"
    /\ args.cidr \notin DOMAIN common_cidrs
    /\ args.cidr \notin MalformedNetworks

C22_MappingTakesPrecedence ==
    (outcome # "none" /\ args.cidr \in DOMAIN common_cidrs) =>
      /\ outcome = "returned"
      /\ result = common_cidrs[args.cidr] \o " (" \o args.cidr \o ")"
      /\ result \notin {PrivateLabel(args.cidr), PublicLabel(args.cidr)}

\* get_friendly_cidr_name has returned the mapped name of a block that is
\* also a valid private network
C22_Witness ==
    /\ outcome = "returned"
    /\ args.cidr = "10.0.0.0/8"
    /\ args.cidr \in PrivateNetworks
    /\ result = "Internal Network (Class A) (10.0.0.0/8)"

\* C23: get_friendly_cidr_name returns for every string, and returns the
\* string itself when it is no key of common_cidrs and ip_network rejects it.
C23_TotalAndPassThrough ==
    outcome # "none" =>
      /\ outcome = "returned"
      /\ result # NoneValue
      /\ (args.cidr \notin DOMAIN common_cidrs /\ args.cidr \in MalformedNetworks)
           => result = args.cidr

\* get_friendly_cidr_name has returned a string that is no address block
C23_Witness ==
    /\ outcome = "returned"
    /\ args.cidr = "not-a-cidr"
    /\ result = "not-a-cidr"

\* the group references of a record list, each with the record that holds it
\* and its place <<record, rule, reference>> in the input
References(security_groups) ==
    UNION { UNION { { [at |-> <<i, j, k>>,
                       sg |-> security_groups[i],
                       pair |-> Get(Get(security_groups[i], "IpPermissions", <<>>)[j],
                                    "UserIdGroupPairs", <<>>)[k]] :
                      k \in 1..Len(Get(Get(security_groups[i], "IpPermissions", <<>>)[j],
                                       "UserIdGroupPairs", <<>>)) } :
                    j \in 1..Len(Get(security_groups[i], "IpPermissions", <<>>)) } :
            i \in 1..Len(security_groups) }

\* input order of two places
ComesBefore(a, b) ==
    \/ a[1] < b[1]
    \/ a[1] = b[1] /\ a[2] < b[2]
    \/ a[1] = b[1] /\ a[2] = b[2] /\ a[3] < b[3]

\* the edges of the graph whose is_cross_vpc is true
CrossVpcEdges == {e \in DOMAIN graph.adj : Get(graph.adj[e], "is_cross_vpc", FALSE)}

\* the references test_cross_vpc_connections counts: pair.get('VpcId') differs
\* from sg.get('VpcId')
DifferingReferences(security_groups) ==
    {r \in References(security_groups) :
       Get(r.pair, "VpcId", NoneValue) # Get(r.sg, "VpcId", NoneValue)}

\* the references that name a group and are the last of the input from that
\* group to the record that holds them
LastReferences(security_groups) ==
    {r \in References(security_groups) :
       /\ Truthy(Get(r.pair, "GroupId", NoneValue))
       /\ \A q \in References(security_groups) :
            (/\ Get(q.pair, "GroupId", NoneValue) = r.pair["GroupId"]
             /\ q.sg["GroupId"] = r.sg["GroupId"])
              => ~ComesBefore(r.at, q.at)}

\* C24 as stated: the edges with is_cross_vpc true are as many as the group
\* references whose VpcId differs from the VpcId of the record holding them.
C24_CrossEdgesCountDifferingReferences ==
    count.builds >= 1 =>
      Cardinality(CrossVpcEdges) = Cardinality(DifferingReferences(args))

\* C24 amended: after a visualizer's build_graph the edges with is_cross_vpc
\* true are the pairs (referenced id, record id) whose last reference in
\* input order gives a VpcId, and one that differs from the container id of
\* the record holding it ("Unknown VPC" when the record gives none); a
\* reference without VpcId or without target id counts for nothing and
\* several references of one pair count once.
C24_CrossEdgesAreLastKnownForeignReferences ==
    (count.builds >= 1 /\ Clears(kind)) =>
      /\ CrossVpcEdges
           = { <<r.pair["GroupId"], r.sg["GroupId"]>> :
                 r \in {q \in LastReferences(args) :
                          /\ "VpcId" \in DOMAIN q.pair
                          /\ q.pair["VpcId"] # Get(q.sg, "VpcId", "Unknown VPC")} }
      /\ Cardinality(CrossVpcEdges) <= Cardinality(DifferingReferences(args))

\* a visualizer has built two records of one group with the same foreign
\* reference: two differing references, one cross-VPC edge
C24_Witness ==
    /\ count.builds >= 1
    /\ Clears(kind)
    /\ Cardinality(DifferingReferences(args)) = 2
    /\ Cardinality(CrossVpcEdges) = 1
    /\ \E r \in DifferingReferences(args) : "VpcId" \in DOMAIN r.pair

\* a step of the group pair loop
GroupPairStep == pc = "pair" /\ pc' = "pair" /\ count'.sources = count.sources + 1

\* C28: the node of an id that has a record carries the name, description
\* and container id of its last record, a node with the attributes of a
\* referenced group belongs to an id without record, and a step of the group
\* pair loop changes the attributes of no node that is already in the graph,
\* so that the order of records and references makes no difference.
C28_RecordAttributesWin ==
    /\ [](\A id \in GroupNodes :
            IF id \in DOMAIN hist.records
            THEN /\ graph.node[id].name = Get(hist.records[id], "GroupName", "Unknown")
                 /\ graph.node[id].description = Get(hist.records[id], "Description", "")
                 /\ graph.node[id].vpc_id = Get(hist.records[id], "VpcId", "Unknown VPC")
                 /\ ~IsPlaceholder(id, graph.node[id].vpc_id)
            ELSE IsPlaceholder(id, graph.node[id].vpc_id))
    /\ [][GroupPairStep =>
            \A n \in DOMAIN graph.node :
              /\ n \in DOMAIN graph'.node
              /\ graph'.node[n] = graph.node[n]]_vars

\* the record of a group has just been read, after a reference in another
\* record gave the group another container id; the node carries the record's
\* name and container id
C28_Witness ==
    /\ pc = "perm"
    /\ Clears(kind)
    /\ \E r \in hist.refs :
         /\ r.source.GroupId = loc.group_id
         /\ r.group_id # loc.group_id
         /\ RefVpc(r.source) = "vpc-2"
    /\ graph.node[loc.group_id].vpc_id = "vpc-1"
    /\ graph.node[loc.group_id].name = "web-sg"

\* C29: the node of an id that has references only carries the container id
\* of the first of them, and a later reference leaves the node as it is,
\* while the is_cross_vpc of each edge from it is that of the reference that
\* wrote the edge last: its container id is known and is not the container
\* id of the record that holds it.
C29_FirstReferenceKeepsNode ==
    /\ [](\A id \in DOMAIN hist.firstRef :
            /\ id \in GroupNodes
            /\ graph.node[id].vpc_id = RefVpc(hist.firstRef[id])
            /\ \A e \in DOMAIN graph.adj :
                 e[1] = id =>
                   /\ e \in DOMAIN hist.writer
                   /\ hist.writer[e].via = "group"
                   /\ graph.adj[e].is_cross_vpc
                        = (RefVpc(hist.writer[e].source)
                             \notin {hist.writer[e].rule.vpc_id, "Unknown VPC"}))
    /\ [][GroupPairStep =>
            \A id \in DOMAIN hist.firstRef :
              /\ id \in DOMAIN hist'.firstRef
              /\ hist'.firstRef[id] = hist.firstRef[id]
              /\ graph'.node[id] = graph.node[id]]_vars

\* a built graph in which a group without record was referenced first from
\* the container of the record that holds the references and then from
\* another one: the edge is cross-VPC between two nodes of one container id
C29_Witness ==
    /\ Built
    /\ \E e \in DOMAIN graph.adj :
         /\ e[1] \in DOMAIN hist.firstRef
         /\ graph.adj[e].is_cross_vpc
         /\ graph.node[e[1]].vpc_id = graph.node[e[2]].vpc_id
         /\ RefVpc(hist.writer[e].source) # RefVpc(hist.firstRef[e[1]])

\* the address ranges of a record list, each with the record that holds it
\* and its place <<record, rule, range>> in the input
RangeReferences(security_groups) ==
    UNION { UNION { { [at |-> <<i, j, k>>,
                       sg |-> security_groups[i],
                       range |-> Get(Get(security_groups[i], "IpPermissions", <<>>)[j],
                                     "IpRanges", <<>>)[k]] :
                      k \in 1..Len(Get(Get(security_groups[i], "IpPermissions", <<>>)[j],
                                       "IpRanges", <<>>)) } :
                    j \in 1..Len(Get(security_groups[i], "IpPermissions", <<>>)) } :
            i \in 1..Len(security_groups) }

HasGroupId(group_pair) == Truthy(Get(group_pair, "GroupId", NoneValue))

HasCidrIp(ip_range) == Truthy(Get(ip_range, "CidrIp", NoneValue))

\* a rule without its references that name no group and its ranges that
\* name no block
WithoutEmptySourcesOfRule(permission) ==
    [k \in DOMAIN permission |->
       CASE k = "UserIdGroupPairs" -> SelectSeq(permission[k], HasGroupId)
         [] k = "IpRanges" -> SelectSeq(permission[k], HasCidrIp)
         [] OTHER -> permission[k]]

\* a record list without those references and ranges
WithoutEmptySources(security_groups) ==
    [i \in 1..Len(security_groups) |->
       [k \in DOMAIN security_groups[i] |->
          IF k = "IpPermissions"
          THEN [j \in 1..Len(security_groups[i][k]) |->
                  WithoutEmptySourcesOfRule(security_groups[i][k][j])]
          ELSE security_groups[i][k]]]

\* C30: a group reference without GroupId or with an empty one, and an
\* address range without CidrIp or with an empty one, leaves no trace: the
\* call returns, the graph is the one built from the records without these
\* sources, no node stands for a missing or empty id or block, and every
\* other reference and range of the records has its edge.
C30_EmptySourcesSkipped ==
    count.builds >= 1 =>
      /\ outcome = "returned"
      /\ graph = build_graph(kind, EmptyGraph, fresh.highlight_sg, WithoutEmptySources(args))
      /\ \A n \in DOMAIN graph.node :
           n \notin {NoneValue, "", "CIDR: ", "CIDR: " \o NoneValue}
      /\ \A r \in References(args) :
           HasGroupId(r.pair) => <<r.pair["GroupId"], r.sg["GroupId"]>> \in DOMAIN graph.adj
      /\ \A r \in RangeReferences(args) :
           HasCidrIp(r.range)
             => <<CidrNodeKey(r.range["CidrIp"]), r.sg["GroupId"]>> \in DOMAIN graph.adj

\* a graph built from a rule in which a reference without GroupId comes
\* before a reference that names a group, and from a rule in which a range
\* with an empty CidrIp comes before one that names a block: both later
\* sources have their edges
C30_Witness ==
    /\ count.builds >= 1
    /\ \E r, q \in References(args) :
         /\ r.at[1] = q.at[1] /\ r.at[2] = q.at[2] /\ r.at[3] < q.at[3]
         /\ ~HasGroupId(r.pair)
         /\ HasGroupId(q.pair)
         /\ <<q.pair["GroupId"], q.sg["GroupId"]>> \in DOMAIN graph.adj
    /\ \E r, q \in RangeReferences(args) :
         /\ r.at[1] = q.at[1] /\ r.at[2] = q.at[2] /\ r.at[3] < q.at[3]
         /\ ~HasCidrIp(r.range)
         /\ HasCidrIp(q.range)
         /\ <<CidrNodeKey(q.range["CidrIp"]), q.sg["GroupId"]>> \in DOMAIN graph.adj
    /\ WithoutEmptySources(args) # args

\* every group of the pairs of profiles and regions, in the order of the loops
RECURSIVE CompleteSet(_)
CompleteSet(pairs) ==
    IF pairs = <<>>
    THEN <<>>
    ELSE DescribeSecurityGroups(Head(pairs)[1], Head(pairs)[2]) \o CompleteSet(Tail(pairs))

\* C25: a call of collect_security_groups without id filter, the API
\* answering, returns every group of each profile and region it is given,
\* whatever calls came before, and a file the collection wrote for a profile
\* and region holds every group of that profile and region, never a filtered
\* part of them.
C25_UnfilteredCollectIsComplete ==
    /\ (/\ outcome = "returned"
        /\ args.op = "collect_security_groups"
        /\ ~HasIds(args.security_group_ids)
        /\ args.down = {}
        /\ \A k \in DOMAIN hist.by : hist.by[k] = "collect_security_groups")
         => result = CompleteSet(ProfileRegionPairs(args.profiles, args.regions))
    /\ \A k \in DOMAIN cache :
         (Readable(cache, k) /\ hist.by[k] = "collect_security_groups")
           => cache[k].data = DescribeSecurityGroups(k[1], k[2])

\* what get_cached_data is to return at this moment: the list save_to_cache
\* wrote last for the profile and region if the file is there, is readable
\* and is not older than CACHE_DURATION, None otherwise
ExpectedCachedData(profile, region) ==
    IF /\ Readable(cache, <<profile, region>>)
       /\ now - hist.saved[<<profile, region>>].timestamp <= CACHE_DURATION
    THEN Some(hist.saved[<<profile, region>>].data)
    ELSE None

\* C26: a call of get_cached_data returns, leaves every file as it is, and
\* its result is the list last written by save_to_cache for the profile and
\* region exactly when the file is there, is readable and its age is at most
\* CACHE_DURATION; it is None when there is no file, when the file is older
\* and when the file cannot be read.
C26_CachedDataIffFresh ==
    [][count' = count =>
         /\ args'.op = "get_cached_data"
         /\ outcome' = "returned"
         /\ cache' = cache
         /\ result' = ExpectedCachedData(args'.profile, args'.region)
         /\ result' # None
              <=> /\ <<args'.profile, args'.region>> \in DOMAIN cache
                  /\ cache[<<args'.profile, args'.region>>] # Unreadable
                  /\ now - cache[<<args'.profile, args'.region>>].timestamp <= CACHE_DURATION]_vars

\* get_cached_data has returned the list of a file whose age is CACHE_DURATION
C26_Witness ==
    /\ outcome = "returned"
    /\ args.op = "get_cached_data"
    /\ Readable(cache, <<args.profile, args.region>>)
    /\ now - cache[<<args.profile, args.region>>].timestamp = CACHE_DURATION
    /\ result = Some(cache[<<args.profile, args.region>>].data)
    /\ result = Some(hist.saved[<<args.profile, args.region>>].data)

\* the call of get_security_group_details is over
DetailsOver == pc = "idle" /\ outcome # "none"

\* C27: a call of get_security_group_details outside mock mode ends, after
\* at most MAX_RETRIES describe calls; the answer of the first describe call
\* that succeeds is returned at once, every call before it having failed;
\* None is returned after exactly MAX_RETRIES failed calls; there is a sleep
\* of RETRY_DELAY after each failed call that is followed by another one and
\* none after the last failed call.
C27_RetryLoopTerminates ==
    /\ <>DetailsOver
    /\ [](/\ loc.calls <= args.MAX_RETRIES
          /\ loc.retries <= loc.calls
          /\ loc.slept = loc.sleeps * args.RETRY_DELAY
          /\ now = loc.slept
          /\ pc = "try" => (loc.calls = loc.retries /\ loc.sleeps = loc.calls)
          /\ pc = "sleep" => (loc.retries < args.MAX_RETRIES /\ loc.sleeps = loc.retries - 1)
          /\ (DetailsOver /\ outcome = "returned" /\ result # None)
               => /\ result = Some([GroupId |-> args.group_id])
                  /\ loc.calls = loc.retries + 1
                  /\ loc.sleeps = loc.retries
          /\ (DetailsOver /\ outcome = "returned" /\ result = None)
               => /\ loc.calls = args.MAX_RETRIES
                  /\ loc.retries = args.MAX_RETRIES
                  /\ loc.sleeps = IF args.MAX_RETRIES = 0 THEN 0 ELSE args.MAX_RETRIES - 1)
    /\ [][DetailsOver => UNCHANGED <<pc, loc, outcome, now>>]_vars

\* under the default settings the call has returned None after three failed
\* describe calls and two sleeps of five seconds
C27_Witness ==
    /\ DetailsOver
    /\ args.MAX_RETRIES = MAX_RETRIES
    /\ args.RETRY_DELAY = RETRY_DELAY
    /\ outcome = "returned"
    /\ result = None
    /\ loc.calls = 3
    /\ loc.sleeps = 2
    /\ now = 10
====
